---- MODULE Spec2Model ----
(***************************************************************************)
(* A model of src/src/ThingsBoard.h: the Telemetry value record and its    *)
(* serializeKeyval, the MQTT client ThingsBoardSized (connect, RPC         *)
(* subscription, the message callback and process_message, the send        *)
(* paths) and the HTTP client ThingsBoardHttpSized (the send paths).       *)
(*                                                                         *)
(* C strings that are rendered or rewritten are sequences of one-character *)
(* strings; C strings that are only compared (method names) are strings.   *)
(* Every action records what the operation did in the observation          *)
(* variables op, arg, ret, io, results, invoked and handed; before and     *)
(* session are history variables the program does not hold.                *)
(***************************************************************************)
EXTENDS Integers, Sequences, FiniteSets, TLC

VARIABLES
    PayloadSize,           \* template parameter PayloadSize of the client
    MaxFieldsAmt,          \* template parameter MaxFieldsAmt of the client
    m_subscribedInstance,  \* ThingsBoardSized::m_subscribedInstance
    m_rpcCallbacks,        \* ThingsBoardSized::m_rpcCallbacks
    callbackSet,           \* whether m_client holds the lambda of RPC_Subscribe
    m_host,                \* ThingsBoardHttpSized::m_host
    m_token,               \* ThingsBoardHttpSized::m_token
    op,                    \* the operation that just ran ("idle" between two calls)
    arg,                   \* its arguments
    ret,                   \* its return value (FALSE for a void operation)
    io,                    \* the calls it made on m_client, in order
    results,               \* what m_client returned for each of those calls
    invoked,               \* the handlers it invoked, in order
    handed,                \* the JSON text it passed to sendTelemetryJson/sendAttributeJSON
    before,                \* history: m_subscribedInstance when the operation started
    response,              \* history: the status of the server's response to the
                           \* POST the operation got accepted, if it did
    session,               \* history: "fresh", then "subscribed" once an RPC_Subscribe
                           \* succeeded, then "reconnected" while a connect with host
                           \* and token came after it and no RPC_Subscribe since
    dropped,               \* history: the method names of the table that the last
                           \* successful RPC_Subscribe replaced which its own table
                           \* does not name
    standing               \* history: the last of these to happen, "none" before any:
                           \* an RPC_Subscribe returned true ("subscribed"),
                           \* RPC_Unsubscribe was called ("unsubscribed"), connect
                           \* was called with host and token ("reconnected")

vars == <<PayloadSize, MaxFieldsAmt, m_subscribedInstance, m_rpcCallbacks,
          callbackSet, m_host, m_token, op, arg, ret, io, results, invoked,
          handed, before, response, session, dropped,
          standing>>

\* What the template arguments and the HTTP client's constructor fix.
fixed == <<PayloadSize, MaxFieldsAmt, m_host, m_token>>

client == <<fixed, m_subscribedInstance, m_rpcCallbacks, callbackSet>>

(***************************************************************************)
(* Program constants and the bounds of the model.                          *)
(***************************************************************************)
Default_Payload == 64

Default_Fields_Amt == 8

\* HTTP_SUCCESS of ArduinoHttpClient, the library's "no error" return code.
HTTP_SUCCESS == 0

\* The handler table passed to RPC_Subscribe has at most MaxCallbacks entries.
MaxCallbacks == 2

\* An aggregated send passes at most MaxDataCount records.
MaxDataCount == 3

\* The send paths are checked for every PayloadSize in 1..MaxPayloadSize.
MaxPayloadSize == 10

(***************************************************************************)
(* Text.                                                                   *)
(***************************************************************************)
\* The null pointer, as a value no character sequence equals.
NullPtr == <<"nullptr">>

Min(a, b) == IF a < b THEN a ELSE b

DigitChar(d) == CASE d = 0 -> "0" [] d = 1 -> "1" [] d = 2 -> "2" [] d = 3 -> "3"
                  [] d = 4 -> "4" [] d = 5 -> "5" [] d = 6 -> "6" [] d = 7 -> "7"
                  [] d = 8 -> "8" [] d = 9 -> "9"

RECURSIVE Digits(_)
Digits(n) == IF n < 10 THEN <<DigitChar(n)>>
             ELSE Digits(n \div 10) \o <<DigitChar(n % 10)>>

\* The JSON text of an integer.
IntText(i) == IF i < 0 THEN <<"-">> \o Digits(0 - i) ELSE Digits(i)

\* The JSON text of a boolean.
BoolText(b) == IF b THEN <<"t", "r", "u", "e">> ELSE <<"f", "a", "l", "s", "e">>

\* The JSON text of a float, given as its integral part and its decimals.
RealText(r) == IF r.dec = <<>> THEN IntText(r.whole)
               ELSE IntText(r.whole) \o <<".">> \o r.dec

RECURSIVE Escaped(_)
Escaped(s) == IF s = <<>> THEN <<>>
              ELSE (IF Head(s) \in {"\"", "\\"} THEN <<"\\", Head(s)>> ELSE <<Head(s)>>)
                   \o Escaped(Tail(s))

\* The JSON text of a string: quoted, with quotes and backslashes escaped.
StrText(s) == <<"\"">> \o Escaped(s) \o <<"\"">>

NullText == <<"n", "u", "l", "l">>

(***************************************************************************)
(* class Telemetry.                                                        *)
(***************************************************************************)
TYPE_NONE == "TYPE_NONE"
TYPE_BOOL == "TYPE_BOOL"
TYPE_INT == "TYPE_INT"
TYPE_REAL == "TYPE_REAL"
TYPE_STR == "TYPE_STR"

ZeroReal == [whole |-> 0, dec |-> <<>>]

\* union data, value-initialised by m_value().
ZeroData == [str |-> NullPtr, boolean |-> FALSE, integer |-> 0, real |-> ZeroReal]

Telemetry_default == [m_type |-> TYPE_NONE, m_key |-> NullPtr, m_value |-> ZeroData]

Telemetry_int(key, val) ==
    [m_type |-> TYPE_INT, m_key |-> key, m_value |-> [ZeroData EXCEPT !.integer = val]]

Telemetry_bool(key, val) ==
    [m_type |-> TYPE_BOOL, m_key |-> key, m_value |-> [ZeroData EXCEPT !.boolean = val]]

Telemetry_float(key, val) ==
    [m_type |-> TYPE_REAL, m_key |-> key, m_value |-> [ZeroData EXCEPT !.real = val]]

Telemetry_str(key, val) ==
    [m_type |-> TYPE_STR, m_key |-> key, m_value |-> [ZeroData EXCEPT !.str = val]]

\* A value the caller passes to the send API, with its C++ type.
IntValue(i) == [ctype |-> "int", v |-> [ZeroData EXCEPT !.integer = i]]

BoolValue(b) == [ctype |-> "bool", v |-> [ZeroData EXCEPT !.boolean = b]]

FloatValue(r) == [ctype |-> "float", v |-> [ZeroData EXCEPT !.real = r]]

DoubleValue(r) == [ctype |-> "double", v |-> [ZeroData EXCEPT !.real = r]]

TextValue(s) == [ctype |-> "const char*", v |-> [ZeroData EXCEPT !.str = s]]

\* m_value.integer = val of the template constructor: an integer as it is,
\* a double without its decimals.
ToInteger(value) ==
    IF value.ctype = "double" THEN value.v.real.whole ELSE value.v.integer

\* Telemetry t(key, value): the constructor overload resolution picks. The
\* three constructors that are no templates take a bool, a float and a
\* const char* as they are. The template constructor's second template
\* parameter defaults to the type enable_if<...> itself, which exists for
\* every T, so it takes a value of any other type, a double included.
Telemetry_ctor(key, value) ==
    CASE value.ctype = "bool" -> Telemetry_bool(key, value.v.boolean)
      [] value.ctype = "float" -> Telemetry_float(key, value.v.real)
      [] value.ctype = "const char*" -> Telemetry_str(key, value.v.str)
      [] OTHER -> Telemetry_int(key, ToInteger(value))

\* The JSON text of the active member of a record's value.
ScalarText(t) ==
    CASE t.m_type = TYPE_BOOL -> BoolText(t.m_value.boolean)
      [] t.m_type = TYPE_INT -> IntText(t.m_value.integer)
      [] t.m_type = TYPE_REAL -> RealText(t.m_value.real)
      [] t.m_type = TYPE_STR -> StrText(t.m_value.str)

(***************************************************************************)
(* The JSON document behind a JsonVariant: null, a scalar or an object.    *)
(* An object is the sequence of its members in insertion order; used       *)
(* counts the slots taken from the document's fixed pool.                  *)
(***************************************************************************)
EmptyDoc == [kind |-> "null", text |-> <<>>, members |-> <<>>, used |-> 0]

MemberIndex(members, key) ==
    IF \E i \in 1..Len(members) : members[i].key = key
    THEN CHOOSE i \in 1..Len(members) :
             /\ members[i].key = key
             /\ \A j \in 1..(i - 1) : members[j].key # key
    ELSE 0

\* jsonObj[key] = value: a null variant becomes an object, an object replaces
\* the member of that key or adds one while the pool has a slot, and any
\* other variant is left alone.
SetMember(doc, key, text, capacity) ==
    IF doc.kind \notin {"null", "object"} THEN doc
    ELSE LET i == MemberIndex(doc.members, key) IN
         IF i > 0
         THEN [doc EXCEPT !.kind = "object", !.members[i].text = text]
         ELSE IF doc.used >= capacity THEN [doc EXCEPT !.kind = "object"]
         ELSE [doc EXCEPT !.kind = "object",
                          !.members = Append(@, [key |-> key, text |-> text]),
                          !.used = @ + 1]

\* jsonObj.set(value): the variant becomes the scalar.
SetScalar(doc, text) == [doc EXCEPT !.kind = "scalar", !.text = text, !.members = <<>>]

\* Telemetry::serializeKeyval: the success flag and the variant afterwards.
serializeKeyval(t, doc, capacity) ==
    IF t.m_key # NullPtr
    THEN [ok |-> TRUE,
          doc |-> IF t.m_type = TYPE_NONE THEN doc
                  ELSE SetMember(doc, t.m_key, ScalarText(t), capacity)]
    ELSE IF t.m_type = TYPE_NONE THEN [ok |-> TRUE, doc |-> doc]
         ELSE [ok |-> TRUE, doc |-> SetScalar(doc, ScalarText(t))]

RECURSIVE MembersText(_)
MembersText(members) ==
    IF members = <<>> THEN <<>>
    ELSE StrText(Head(members).key) \o <<":">> \o Head(members).text
         \o (IF Len(members) > 1 THEN <<",">> ELSE <<>>)
         \o MembersText(Tail(members))

\* The compact JSON text of a document.
JsonText(doc) ==
    CASE doc.kind = "null" -> NullText
      [] doc.kind = "scalar" -> doc.text
      [] doc.kind = "object" -> <<"{">> \o MembersText(doc.members) \o <<"}">>

measureJson(doc) == Len(JsonText(doc))

\* serializeJson(doc, buffer, size): what fits before the terminator.
serializeJson(doc, size) ==
    LET text == JsonText(doc) IN SubSeq(text, 1, Min(Len(text), size - 1))

(***************************************************************************)
(* Channels and the transport calls an operation makes.                    *)
(***************************************************************************)
TelemetryTopic == <<"v", "1", "/", "d", "e", "v", "i", "c", "e", "s", "/", "m", "e", "/",
                    "t", "e", "l", "e", "m", "e", "t", "r", "y">>

AttributesTopic == <<"v", "1", "/", "d", "e", "v", "i", "c", "e", "s", "/", "m", "e", "/",
                     "a", "t", "t", "r", "i", "b", "u", "t", "e", "s">>

RpcRequestPrefix == <<"v", "1", "/", "d", "e", "v", "i", "c", "e", "s", "/", "m", "e", "/",
                      "r", "p", "c", "/", "r", "e", "q", "u", "e", "s", "t", "/">>

RpcFilter == RpcRequestPrefix \o <<"+">>

RequestText == <<"r", "e", "q", "u", "e", "s", "t">>

ResponseText == <<"r", "e", "s", "p", "o", "n", "s", "e">>

ClientId == <<"T", "b", "D", "e", "v">>

\* One call on m_client: the function, its first argument, its second.
IoCall(fn, target, data) == [fn |-> fn, target |-> target, data |-> data]

\* What a call on m_client returned: a bool, an int, or nothing.
BoolResult(b) == [b |-> b, n |-> 0]

IntResult(n) == [b |-> FALSE, n |-> n]

VoidResult == [b |-> FALSE, n |-> 0]

\* What the wrappers pass on to sendTelemetryJson / sendAttributeJSON.
Handed(telemetry, json) == <<[telemetry |-> telemetry, json |-> json]>>

(***************************************************************************)
(* String::replace(find, replace) of the Arduino core: every occurrence of *)
(* find, left to right, without overlap.                                   *)
(***************************************************************************)
RECURSIVE replace(_, _, _)
replace(s, find, with) ==
    IF Len(find) = 0 \/ Len(s) < Len(find) THEN s
    ELSE IF SubSeq(s, 1, Len(find)) = find
         THEN with \o replace(SubSeq(s, Len(find) + 1, Len(s)), find, with)
         ELSE <<Head(s)>> \o replace(Tail(s), find, with)

\* The reply channel of process_message.
responseTopic(topic) == replace(topic, RequestText, ResponseText)

(***************************************************************************)
(* Inbound RPC messages. A payload is either bytes that are no JSON, or a  *)
(* JSON value: an object (its members in order) or something else.         *)
(***************************************************************************)
NullVariant == [isNull |-> TRUE, isStr |-> FALSE, str |-> "", num |-> 0]

TextVariant(s) == [isNull |-> FALSE, isStr |-> TRUE, str |-> s, num |-> 0]

NumVariant(n) == [isNull |-> FALSE, isStr |-> FALSE, str |-> "", num |-> n]

Member(key, value) == [key |-> key, value |-> value]

Garbage == [valid |-> FALSE, isObject |-> FALSE, members |-> <<>>]

JsonArray == [valid |-> TRUE, isObject |-> FALSE, members |-> <<>>]

JsonObject(members) == [valid |-> TRUE, isObject |-> TRUE, members |-> members]

\* Mutant: a decoder that never reports the pool running out.
deserializeJson_unbounded(payload, capacity) ==
    [error |-> ~payload.valid, root |-> payload]

\* deserializeJson into a document of `capacity` slots: an error for bytes
\* that are no JSON and for an object with more members than slots.
deserializeJson(payload, capacity) ==
    [error |-> ~payload.valid \/ Len(payload.members) > capacity,
     root |-> payload]

\* data[key] of jsonBuffer.as<JsonObject>(): the first member of that key,
\* the null variant when there is none or the root is no object.
getMember(root, key) ==
    IF root.isObject /\ \E i \in 1..Len(root.members) : root.members[i].key = key
    THEN root.members[CHOOSE i \in 1..Len(root.members) :
                          /\ root.members[i].key = key
                          /\ \A j \in 1..(i - 1) : root.members[j].key # key].value
    ELSE NullVariant

containsKey(root, key) ==
    root.isObject /\ \E i \in 1..Len(root.members) : root.members[i].key = key

\* The null method name, as a value no method name of the model equals.
NullName == "(nullptr)"

\* JsonVariant to const char*: the text, or nullptr for anything else.
asCString(v) == IF ~v.isNull /\ v.isStr THEN v.str ELSE NullName

(***************************************************************************)
(* class RPC_Callback and the handlers the caller registers.               *)
(***************************************************************************)
NullFn == "nullptr"

RPC_Callback(methodName, cb) == [m_name |-> methodName, m_cb |-> cb]

\* The method names of a handler table.
MethodNames(callbacks) == {callbacks[i].m_name : i \in 1..Len(callbacks)}

LongText(n) == [i \in 1..n |-> "x"]

\* The handlers of the model: what each returns for the RPC_Data it gets.
CallHandler(cb, data) ==
    CASE cb = "processGet" -> Telemetry_int(NullPtr, 42)
      [] cb = "processSet" -> IF data.isNull THEN Telemetry_default
                              ELSE Telemetry_int(<<"v">>, data.num)
      [] cb = "processInfo" -> IF data.isNull
                               THEN Telemetry_str(NullPtr, LongText(Default_Payload - 3))
                               ELSE Telemetry_str(NullPtr, LongText(Default_Payload - 2))

\* Mutant: the last matching entry instead of the first.
FindCallback_last(callbacks, methodName) ==
    LET hit(i) == callbacks[i].m_cb # NullFn /\ callbacks[i].m_name = methodName IN
    IF \E i \in 1..Len(callbacks) : hit(i)
    THEN CHOOSE i \in 1..Len(callbacks) :
             hit(i) /\ \A j \in (i + 1)..Len(callbacks) : ~hit(j)
    ELSE 0

\* The first entry of the table that has a handler and the method's name.
FindCallback(callbacks, methodName) ==
    LET hit(i) == callbacks[i].m_cb # NullFn /\ callbacks[i].m_name = methodName IN
    IF \E i \in 1..Len(callbacks) : hit(i)
    THEN CHOOSE i \in 1..Len(callbacks) : hit(i) /\ \A j \in 1..(i - 1) : ~hit(j)
    ELSE 0

\* Mutant: a missing params becomes the number 0.
rpcParams_zero(data) ==
    IF containsKey(data, "params") THEN getMember(data, "params") ELSE NumVariant(0)

\* data["params"]: the null variant when the message has no params.
rpcParams(data) == getMember(data, "params")

\* Mutant: the size check without the byte kept for the terminator.
TooBig_noTerminator(doc, payloadSize) == measureJson(doc) > payloadSize

\* The size check shared by the send paths and the reply path.
TooBig(doc, payloadSize) == measureJson(doc) > payloadSize - 1

\* ThingsBoardSized::process_message: the handlers invoked and the calls made.
process_message(topic, payload, callbacks, payloadSize, maxFieldsAmt) ==
    LET parsed == deserializeJson(payload, maxFieldsAmt)
        data == parsed.root
        methodName == asCString(getMember(data, "method"))
        idx == FindCallback(callbacks, methodName)
        params == rpcParams(data)
        r == IF idx = 0 THEN Telemetry_default
             ELSE CallHandler(callbacks[idx].m_cb, params)
        calls == IF idx = 0 THEN <<>>
                 ELSE <<[index |-> idx, cb |-> callbacks[idx].m_cb, data |-> params]>>
        resp == serializeKeyval(r, EmptyDoc, 1)
    IN  IF parsed.error \/ methodName = NullName
        THEN [invoked |-> <<>>, io |-> <<>>]
        ELSE IF ~resp.ok \/ TooBig(resp.doc, payloadSize)
        THEN [invoked |-> calls, io |-> <<>>]
        ELSE [invoked |-> calls,
              io |-> <<IoCall("publish", responseTopic(topic),
                              serializeJson(resp.doc, payloadSize))>>]

(***************************************************************************)
(* The arguments the caller and the transport supply.                      *)
(***************************************************************************)
Hosts == {NullPtr, <<"h">>}

Tokens == {NullPtr, <<"t">>}

CallbackEntries ==
    {RPC_Callback("foo", NullFn), RPC_Callback("foo", "processGet"),
     RPC_Callback("foo", "processSet"), RPC_Callback("bar", "processInfo")}

CallbackTables == UNION {[1..n -> CallbackEntries] : n \in 0..MaxCallbacks}

\* Channels that match the filter v1/devices/me/rpc/request/+.
Topics == {RpcRequestPrefix \o <<"4", "2">>,
           RpcRequestPrefix \o RequestText \o <<"7">>}

MethodMembers ==
    {<<>>, <<Member("method", NumVariant(5))>>}
    \cup {<<Member("method", TextVariant(m))>> : m \in {"foo", "Foo", "bar", "baz"}}

ParamsMembers == {<<>>, <<Member("params", NumVariant(1))>>}

Filler(n) == [i \in 1..n |-> Member("k", NumVariant(i))]

Payloads ==
    {Garbage, JsonArray}
    \cup {JsonObject(m \o q) : m \in MethodMembers, q \in ParamsMembers}
    \cup {JsonObject(<<Member("method", TextVariant("foo"))>> \o Filler(MaxFieldsAmt))}

Reals == {[whole |-> 1, dec |-> <<"5">>]}

Keys == {NullPtr, <<"a">>}

\* The values sendTelemetry(key, value) and sendAttribute(attrName, value)
\* are called with, of each type.
KeyvalValues ==
    {IntValue(v) : v \in {7, 42}}
    \cup {BoolValue(v) : v \in BOOLEAN}
    \cup {FloatValue(v) : v \in Reals}
    \cup {DoubleValue(v) : v \in Reals}
    \cup {TextValue(v) : v \in {<<"x">>, <<"a", "\"", "c">>}}

\* The records of an aggregated send.
ArrayRecords ==
    {Telemetry_int(<<"a">>, 7), Telemetry_int(<<"a">>, 42), Telemetry_str(<<"b">>, <<"x">>),
     Telemetry_bool(NullPtr, TRUE)}

DataArrays == UNION {[1..n -> ArrayRecords] : n \in 0..MaxDataCount}

JsonTexts == {<<"{", "}">>}

(***************************************************************************)
(* class ThingsBoardSized. Each action is one call of a public operation,  *)
(* made while no other call is running (op = "idle").                      *)
(***************************************************************************)
NoArg == <<>>

\* RPC_Subscribed().
RPC_Subscribed == m_subscribedInstance

\* The constructor initialises m_client only: m_subscribedInstance holds
\* whatever the storage held (zero for a static object), the table is empty
\* and m_client has no callback.
Constructed ==
    /\ m_subscribedInstance \in BOOLEAN
    /\ m_rpcCallbacks = <<>>
    /\ callbackSet = FALSE
    /\ op = "idle" /\ arg = NoArg /\ ret = FALSE
    /\ io = <<>> /\ results = <<>> /\ invoked = <<>> /\ handed = <<>>
    /\ before = FALSE /\ response = <<>> /\ session = "fresh"
    /\ dropped = {} /\ standing = "none"

\* Mutant: connect without the call of RPC_Unsubscribe.
connect_keepsSubscription ==
    /\ op = "idle"
    /\ \E host \in Hosts, access_token \in Tokens :
        /\ op' = "connect"
        /\ arg' = [host |-> host, access_token |-> access_token]
        /\ invoked' = <<>> /\ handed' = <<>>
        /\ before' = m_subscribedInstance
        /\ response' = <<>>
        /\ IF host = NullPtr \/ access_token = NullPtr
           THEN /\ ret' = FALSE /\ io' = <<>> /\ results' = <<>>
                /\ UNCHANGED <<client, session, dropped, standing>>
           ELSE \E unsubscribed \in BOOLEAN, connected \in BOOLEAN :
                /\ m_subscribedInstance' = m_subscribedInstance
                /\ session' = IF session = "fresh" THEN "fresh" ELSE "reconnected"
                /\ UNCHANGED dropped
                /\ standing' = "reconnected"
                /\ io' = <<IoCall("unsubscribe", RpcFilter, <<>>),
                           IoCall("setServer", host, <<>>),
                           IoCall("connect", ClientId, access_token)>>
                /\ results' = <<BoolResult(unsubscribed), VoidResult,
                                BoolResult(connected)>>
                /\ ret' = connected
                /\ UNCHANGED <<fixed, m_rpcCallbacks, callbackSet>>

\* Mutant: connect that drops the subscription only once connected.
connect_unsubscribesOnSuccess ==
    /\ op = "idle"
    /\ \E host \in Hosts, access_token \in Tokens :
        /\ op' = "connect"
        /\ arg' = [host |-> host, access_token |-> access_token]
        /\ invoked' = <<>> /\ handed' = <<>>
        /\ before' = m_subscribedInstance
        /\ response' = <<>>
        /\ IF host = NullPtr \/ access_token = NullPtr
           THEN /\ ret' = FALSE /\ io' = <<>> /\ results' = <<>>
                /\ UNCHANGED <<client, session, dropped, standing>>
           ELSE \E unsubscribed \in BOOLEAN, connected \in BOOLEAN :
                /\ m_subscribedInstance' = (m_subscribedInstance /\ ~connected)
                /\ session' = IF session = "fresh" THEN "fresh" ELSE "reconnected"
                /\ UNCHANGED dropped
                /\ standing' = "reconnected"
                /\ io' = <<IoCall("unsubscribe", RpcFilter, <<>>),
                           IoCall("setServer", host, <<>>),
                           IoCall("connect", ClientId, access_token)>>
                /\ results' = <<BoolResult(unsubscribed), VoidResult,
                                BoolResult(connected)>>
                /\ ret' = connected
                /\ UNCHANGED <<fixed, m_rpcCallbacks, callbackSet>>

\* Mutant: connect that cleans up the subscription before it looks at its
\* arguments.
connect_unsubscribesFirst ==
    /\ op = "idle"
    /\ \E host \in Hosts, access_token \in Tokens :
        /\ op' = "connect"
        /\ arg' = [host |-> host, access_token |-> access_token]
        /\ invoked' = <<>> /\ handed' = <<>>
        /\ before' = m_subscribedInstance
        /\ response' = <<>>
        /\ m_subscribedInstance' = FALSE
        /\ session' = IF session = "fresh" THEN "fresh" ELSE "reconnected"
        /\ UNCHANGED dropped
        /\ standing' = "reconnected"
        /\ UNCHANGED <<fixed, m_rpcCallbacks, callbackSet>>
        /\ \E unsubscribed \in BOOLEAN :
           IF host = NullPtr \/ access_token = NullPtr
           THEN /\ ret' = FALSE
                /\ io' = <<IoCall("unsubscribe", RpcFilter, <<>>)>>
                /\ results' = <<BoolResult(unsubscribed)>>
           ELSE \E connected \in BOOLEAN :
                /\ io' = <<IoCall("unsubscribe", RpcFilter, <<>>),
                           IoCall("setServer", host, <<>>),
                           IoCall("connect", ClientId, access_token)>>
                /\ results' = <<BoolResult(unsubscribed), VoidResult,
                                BoolResult(connected)>>
                /\ ret' = connected

connect ==
    /\ op = "idle"
    /\ \E host \in Hosts, access_token \in Tokens :
        /\ op' = "connect"
        /\ arg' = [host |-> host, access_token |-> access_token]
        /\ invoked' = <<>> /\ handed' = <<>>
        /\ before' = m_subscribedInstance
        /\ response' = <<>>
        /\ IF host = NullPtr \/ access_token = NullPtr
           THEN /\ ret' = FALSE /\ io' = <<>> /\ results' = <<>>
                /\ UNCHANGED <<client, session, dropped, standing>>
           ELSE \E unsubscribed \in BOOLEAN, connected \in BOOLEAN :
                /\ m_subscribedInstance' = FALSE
                /\ session' = IF session = "fresh" THEN "fresh" ELSE "reconnected"
                /\ UNCHANGED dropped
                /\ standing' = "reconnected"
                /\ io' = <<IoCall("unsubscribe", RpcFilter, <<>>),
                           IoCall("setServer", host, <<>>),
                           IoCall("connect", ClientId, access_token)>>
                /\ results' = <<BoolResult(unsubscribed), VoidResult,
                                BoolResult(connected)>>
                /\ ret' = connected
                /\ UNCHANGED <<fixed, m_rpcCallbacks, callbackSet>>

\* Mutant: disconnect that also drops the subscription.
disconnect_unsubscribes ==
    /\ op = "idle"
    /\ op' = "disconnect" /\ arg' = NoArg /\ ret' = FALSE
    /\ io' = <<IoCall("disconnect", <<>>, <<>>)>>
    /\ results' = <<VoidResult>>
    /\ invoked' = <<>> /\ handed' = <<>>
    /\ before' = m_subscribedInstance
    /\ response' = <<>>
    /\ m_subscribedInstance' = FALSE
    /\ UNCHANGED <<fixed, m_rpcCallbacks, callbackSet, session, dropped, standing>>

disconnect ==
    /\ op = "idle"
    /\ op' = "disconnect" /\ arg' = NoArg /\ ret' = FALSE
    /\ io' = <<IoCall("disconnect", <<>>, <<>>)>>
    /\ results' = <<VoidResult>>
    /\ invoked' = <<>> /\ handed' = <<>>
    /\ before' = m_subscribedInstance
    /\ response' = <<>>
    /\ UNCHANGED <<client, session, dropped, standing>>

\* Mutant: RPC_Subscribe without the check of m_subscribedInstance.
RPC_Subscribe_again ==
    /\ op = "idle"
    /\ \E callbacks \in CallbackTables :
        /\ op' = "RPC_Subscribe"
        /\ arg' = [callbacks |-> callbacks]
        /\ invoked' = <<>> /\ handed' = <<>>
        /\ before' = m_subscribedInstance
        /\ response' = <<>>
        /\ IF FALSE
           THEN /\ ret' = FALSE /\ io' = <<>> /\ results' = <<>>
                /\ session' = IF session = "fresh" THEN "fresh" ELSE "subscribed"
                /\ UNCHANGED <<dropped, standing>>
                /\ UNCHANGED client
           ELSE \E subscribed \in BOOLEAN :
                IF ~subscribed
                THEN /\ ret' = FALSE
                     /\ io' = <<IoCall("subscribe", RpcFilter, <<>>)>>
                     /\ results' = <<BoolResult(FALSE)>>
                     /\ session' = IF session = "fresh" THEN "fresh" ELSE "subscribed"
                     /\ UNCHANGED <<dropped, standing>>
                     /\ UNCHANGED client
                ELSE /\ m_subscribedInstance' = TRUE
                     /\ session' = "subscribed"
                     /\ dropped' = MethodNames(m_rpcCallbacks) \ MethodNames(callbacks)
                     /\ standing' = "subscribed"
                     /\ m_rpcCallbacks' = callbacks
                     /\ callbackSet' = TRUE
                     /\ io' = <<IoCall("subscribe", RpcFilter, <<>>),
                                IoCall("setCallback", <<>>, <<>>)>>
                     /\ results' = <<BoolResult(TRUE), VoidResult>>
                     /\ ret' = TRUE
                     /\ UNCHANGED fixed

\* Mutant: RPC_Subscribe that keeps a table it already holds.
RPC_Subscribe_keepsTable ==
    /\ op = "idle"
    /\ \E callbacks \in CallbackTables :
        /\ op' = "RPC_Subscribe"
        /\ arg' = [callbacks |-> callbacks]
        /\ invoked' = <<>> /\ handed' = <<>>
        /\ before' = m_subscribedInstance
        /\ response' = <<>>
        /\ IF m_subscribedInstance
           THEN /\ ret' = FALSE /\ io' = <<>> /\ results' = <<>>
                /\ session' = IF session = "fresh" THEN "fresh" ELSE "subscribed"
                /\ UNCHANGED <<dropped, standing>>
                /\ UNCHANGED client
           ELSE \E subscribed \in BOOLEAN :
                IF ~subscribed
                THEN /\ ret' = FALSE
                     /\ io' = <<IoCall("subscribe", RpcFilter, <<>>)>>
                     /\ results' = <<BoolResult(FALSE)>>
                     /\ session' = IF session = "fresh" THEN "fresh" ELSE "subscribed"
                     /\ UNCHANGED <<dropped, standing>>
                     /\ UNCHANGED client
                ELSE /\ m_subscribedInstance' = TRUE
                     /\ session' = "subscribed"
                     /\ dropped' = MethodNames(m_rpcCallbacks) \ MethodNames(callbacks)
                     /\ standing' = "subscribed"
                     /\ m_rpcCallbacks' = IF m_rpcCallbacks = <<>> THEN callbacks ELSE m_rpcCallbacks
                     /\ callbackSet' = TRUE
                     /\ io' = <<IoCall("subscribe", RpcFilter, <<>>),
                                IoCall("setCallback", <<>>, <<>>)>>
                     /\ results' = <<BoolResult(TRUE), VoidResult>>
                     /\ ret' = TRUE
                     /\ UNCHANGED fixed

RPC_Subscribe ==
    /\ op = "idle"
    /\ \E callbacks \in CallbackTables :
        /\ op' = "RPC_Subscribe"
        /\ arg' = [callbacks |-> callbacks]
        /\ invoked' = <<>> /\ handed' = <<>>
        /\ before' = m_subscribedInstance
        /\ response' = <<>>
        /\ IF m_subscribedInstance
           THEN /\ ret' = FALSE /\ io' = <<>> /\ results' = <<>>
                /\ session' = IF session = "fresh" THEN "fresh" ELSE "subscribed"
                /\ UNCHANGED <<dropped, standing>>
                /\ UNCHANGED client
           ELSE \E subscribed \in BOOLEAN :
                IF ~subscribed
                THEN /\ ret' = FALSE
                     /\ io' = <<IoCall("subscribe", RpcFilter, <<>>)>>
                     /\ results' = <<BoolResult(FALSE)>>
                     /\ session' = IF session = "fresh" THEN "fresh" ELSE "subscribed"
                     /\ UNCHANGED <<dropped, standing>>
                     /\ UNCHANGED client
                ELSE /\ m_subscribedInstance' = TRUE
                     /\ session' = "subscribed"
                     /\ dropped' = MethodNames(m_rpcCallbacks) \ MethodNames(callbacks)
                     /\ standing' = "subscribed"
                     /\ m_rpcCallbacks' = callbacks
                     /\ callbackSet' = TRUE
                     /\ io' = <<IoCall("subscribe", RpcFilter, <<>>),
                                IoCall("setCallback", <<>>, <<>>)>>
                     /\ results' = <<BoolResult(TRUE), VoidResult>>
                     /\ ret' = TRUE
                     /\ UNCHANGED fixed

\* Mutant: RPC_Unsubscribe that clears the flag only when the transport
\* unsubscribed.
RPC_Unsubscribe_onSuccess ==
    /\ op = "idle"
    /\ \E unsubscribed \in BOOLEAN :
        /\ op' = "RPC_Unsubscribe" /\ arg' = NoArg
        /\ m_subscribedInstance' = (m_subscribedInstance /\ ~unsubscribed)
        /\ io' = <<IoCall("unsubscribe", RpcFilter, <<>>)>>
        /\ results' = <<BoolResult(unsubscribed)>>
        /\ ret' = unsubscribed
        /\ invoked' = <<>> /\ handed' = <<>>
        /\ before' = m_subscribedInstance
        /\ response' = <<>>
        /\ standing' = "unsubscribed"
        /\ UNCHANGED <<fixed, m_rpcCallbacks, callbackSet, session, dropped>>

RPC_Unsubscribe ==
    /\ op = "idle"
    /\ \E unsubscribed \in BOOLEAN :
        /\ op' = "RPC_Unsubscribe" /\ arg' = NoArg
        /\ m_subscribedInstance' = FALSE
        /\ io' = <<IoCall("unsubscribe", RpcFilter, <<>>)>>
        /\ results' = <<BoolResult(unsubscribed)>>
        /\ ret' = unsubscribed
        /\ invoked' = <<>> /\ handed' = <<>>
        /\ before' = m_subscribedInstance
        /\ response' = <<>>
        /\ standing' = "unsubscribed"
        /\ UNCHANGED <<fixed, m_rpcCallbacks, callbackSet, session, dropped>>

\* m_client delivers an inbound message to the callback RPC_Subscribe set.
messageCallback ==
    /\ op = "idle"
    /\ callbackSet
    /\ \E topic \in Topics, payload \in Payloads, published \in BOOLEAN :
        LET done == IF m_subscribedInstance
                    THEN process_message(topic, payload, m_rpcCallbacks,
                                         PayloadSize, MaxFieldsAmt)
                    ELSE [invoked |-> <<>>, io |-> <<>>]
        IN  /\ op' = "message"
            /\ arg' = [topic |-> topic, payload |-> payload]
            /\ ret' = FALSE
            /\ io' = done.io
            /\ results' = [k \in 1..Len(done.io) |-> BoolResult(published)]
            /\ invoked' = done.invoked
            /\ handed' = <<>>
            /\ before' = m_subscribedInstance
            /\ response' = <<>>
            /\ UNCHANGED <<client, session, dropped, standing>>

\* Mutant: both JSON sends publish on the telemetry channel.
publishJson_telemetryOnly(telemetry, json, published) ==
    [io |-> <<IoCall("publish", TelemetryTopic, json)>>,
     results |-> <<BoolResult(published)>>,
     ret |-> published]

\* sendTelemetryJson / sendAttributeJSON of ThingsBoardSized.
publishJson(telemetry, json, published) ==
    [io |-> <<IoCall("publish", IF telemetry THEN TelemetryTopic ELSE AttributesTopic, json)>>,
     results |-> <<BoolResult(published)>>,
     ret |-> published]

sendJson ==
    /\ op = "idle"
    /\ \E telemetry \in BOOLEAN, json \in JsonTexts, published \in BOOLEAN :
        LET sent == publishJson(telemetry, json, published) IN
        /\ op' = IF telemetry THEN "sendTelemetryJson" ELSE "sendAttributeJSON"
        /\ arg' = [json |-> json, telemetry |-> telemetry]
        /\ io' = sent.io /\ results' = sent.results /\ ret' = sent.ret
        /\ invoked' = <<>> /\ handed' = <<>>
        /\ before' = m_subscribedInstance
        /\ response' = <<>>
        /\ UNCHANGED <<client, session, dropped, standing>>

\* The loop of sendDataArray: the records in order, stopping at the first
\* one that fails to serialize.
RECURSIVE serializeAll(_, _, _)
serializeAll(data, doc, capacity) ==
    IF data = <<>> THEN [ok |-> TRUE, doc |-> doc]
    ELSE LET one == serializeKeyval(Head(data), doc, capacity) IN
         IF ~one.ok THEN [ok |-> FALSE, doc |-> one.doc]
         ELSE serializeAll(Tail(data), one.doc, capacity)

\* sendKeyval up to the transport: the document of one record in a pool of
\* one slot, refused when it does not serialize or is too big.
keyvalPayload(t, payloadSize) ==
    LET one == serializeKeyval(t, EmptyDoc, 1) IN
    IF ~one.ok \/ TooBig(one.doc, payloadSize)
    THEN [ok |-> FALSE, payload |-> <<>>]
    ELSE [ok |-> TRUE, payload |-> serializeJson(one.doc, payloadSize)]

\* Mutant: the field-count check refuses MaxFieldsAmt records too.
arrayPayload_strict(data, payloadSize, maxFieldsAmt) ==
    IF maxFieldsAmt <= Len(data) THEN [ok |-> FALSE, payload |-> <<>>]
    ELSE LET all == serializeAll(data, EmptyDoc, maxFieldsAmt) IN
         IF ~all.ok \/ TooBig(all.doc, payloadSize)
         THEN [ok |-> FALSE, payload |-> <<>>]
         ELSE [ok |-> TRUE, payload |-> serializeJson(all.doc, payloadSize)]

\* sendDataArray up to the transport: refused for too many records, for a
\* record that does not serialize and for a document that is too big.
arrayPayload(data, payloadSize, maxFieldsAmt) ==
    IF maxFieldsAmt < Len(data) THEN [ok |-> FALSE, payload |-> <<>>]
    ELSE LET all == serializeAll(data, EmptyDoc, maxFieldsAmt) IN
         IF ~all.ok \/ TooBig(all.doc, payloadSize)
         THEN [ok |-> FALSE, payload |-> <<>>]
         ELSE [ok |-> TRUE, payload |-> serializeJson(all.doc, payloadSize)]

\* The end of both MQTT send paths: nothing when refused, else the payload
\* goes to sendTelemetryJson or sendAttributeJSON.
MqttSend(made, telemetry) ==
    IF ~made.ok
    THEN /\ ret' = FALSE /\ io' = <<>> /\ results' = <<>> /\ handed' = <<>>
    ELSE \E published \in BOOLEAN :
         LET sent == publishJson(telemetry, made.payload, published) IN
         /\ handed' = Handed(telemetry, made.payload)
         /\ io' = sent.io /\ results' = sent.results /\ ret' = sent.ret

\* sendTelemetry(key, value) and sendAttribute(attrName, value).
sendKeyval ==
    /\ op = "idle"
    /\ \E key \in Keys, value \in KeyvalValues, telemetry \in BOOLEAN :
        LET t == Telemetry_ctor(key, value) IN
        /\ op' = "sendKeyval"
        /\ arg' = [data |-> <<t>>, telemetry |-> telemetry, backend |-> "mqtt",
                   value |-> value]
        /\ MqttSend(keyvalPayload(t, PayloadSize), telemetry)
        /\ invoked' = <<>>
        /\ before' = m_subscribedInstance
        /\ response' = <<>>
        /\ UNCHANGED <<client, session, dropped, standing>>

\* sendTelemetry(data, data_count) and sendAttributes(data, data_count).
sendDataArray ==
    /\ op = "idle"
    /\ \E data \in DataArrays, telemetry \in BOOLEAN :
        /\ op' = "sendDataArray"
        /\ arg' = [data |-> data, telemetry |-> telemetry, backend |-> "mqtt"]
        /\ MqttSend(arrayPayload(data, PayloadSize, MaxFieldsAmt), telemetry)
        /\ invoked' = <<>>
        /\ before' = m_subscribedInstance
        /\ response' = <<>>
        /\ UNCHANGED <<client, session, dropped, standing>>

(***************************************************************************)
(* class ThingsBoardHttpSized. m_client is an HttpClient: post returns     *)
(* HTTP_SUCCESS or a negative error, responseStatusCode the status of the  *)
(* response or a negative error.                                           *)
(***************************************************************************)
ApiPrefix == <<"/", "a", "p", "i", "/", "v", "1", "/">>

TelemetryPath == <<"/", "t", "e", "l", "e", "m", "e", "t", "r", "y">>

AttributesPath == <<"/", "a", "t", "t", "r", "i", "b", "u", "t", "e", "s">>

PostResults == {HTTP_SUCCESS, -1}

StatusCodes == {200, 404, -2}

\* From the post on: !post(...) is true when post returns 0, which is how
\* HttpClient reports an accepted request, and the status is read only when
\* it is false. The server's response to an accepted request has a status
\* whether the code reads it or not.
Http_post(sofar, telemetry, json) ==
    LET path == ApiPrefix \o m_token \o (IF telemetry THEN TelemetryPath ELSE AttributesPath)
        posted == sofar.io \o <<IoCall("post", path, json)>>
        stop == <<IoCall("stop", <<>>, <<>>)>>
    IN  \E post \in PostResults :
            IF post = 0
            THEN \E status \in StatusCodes :
                 /\ io' = posted \o stop
                 /\ results' = sofar.results \o <<IntResult(post), VoidResult>>
                 /\ response' = <<status>>
                 /\ ret' = FALSE
            ELSE \E status \in StatusCodes :
                 /\ response' = <<>>
                 /\ io' = posted \o <<IoCall("responseStatusCode", <<>>, <<>>)>> \o stop
                 /\ results' = sofar.results
                                \o <<IntResult(post), IntResult(status), VoidResult>>
                 /\ ret' = (status = HTTP_SUCCESS)

\* sendTelemetryJson / sendAttributeJSON of ThingsBoardHttpSized.
Http_postJson(telemetry, json) ==
    IF json = NullPtr \/ m_token = NullPtr
    THEN /\ ret' = FALSE /\ io' = <<>> /\ results' = <<>> /\ response' = <<>>
    ELSE \E connected \in BOOLEAN :
         LET asked == [io |-> <<IoCall("connected", <<>>, <<>>)>>,
                       results |-> <<BoolResult(connected)>>]
         IN
         IF connected THEN Http_post(asked, telemetry, json)
         ELSE \E connect_ok \in BOOLEAN :
              LET tried == [io |-> asked.io \o <<IoCall("connect", m_host, <<>>)>>,
                            results |-> asked.results \o <<BoolResult(connect_ok)>>]
              IN
              IF ~connect_ok
              THEN /\ ret' = FALSE /\ io' = tried.io /\ results' = tried.results
                   /\ response' = <<>>
              ELSE Http_post(tried, telemetry, json)

Http_sendJson ==
    /\ op = "idle"
    /\ \E telemetry \in BOOLEAN, json \in JsonTexts \cup {NullPtr} :
        /\ op' = IF telemetry THEN "Http_sendTelemetryJson" ELSE "Http_sendAttributeJSON"
        /\ arg' = [json |-> json, telemetry |-> telemetry]
        /\ Http_postJson(telemetry, json)
        /\ invoked' = <<>> /\ handed' = <<>>
        /\ before' = m_subscribedInstance
        /\ UNCHANGED <<client, session, dropped, standing>>

\* ThingsBoardHttpSized::sendKeyval up to the transport.
Http_keyvalPayload(t, payloadSize) ==
    LET one == serializeKeyval(t, EmptyDoc, 1) IN
    IF ~one.ok \/ TooBig(one.doc, payloadSize)
    THEN [ok |-> FALSE, payload |-> <<>>]
    ELSE [ok |-> TRUE, payload |-> serializeJson(one.doc, payloadSize)]

\* ThingsBoardHttpSized::sendDataArray up to the transport.
Http_arrayPayload(data, payloadSize, maxFieldsAmt) ==
    IF maxFieldsAmt < Len(data) THEN [ok |-> FALSE, payload |-> <<>>]
    ELSE LET all == serializeAll(data, EmptyDoc, maxFieldsAmt) IN
         IF ~all.ok \/ TooBig(all.doc, payloadSize)
         THEN [ok |-> FALSE, payload |-> <<>>]
         ELSE [ok |-> TRUE, payload |-> serializeJson(all.doc, payloadSize)]

\* The end of both HTTP send paths.
HttpSend(made, telemetry) ==
    IF ~made.ok
    THEN /\ ret' = FALSE /\ io' = <<>> /\ results' = <<>> /\ handed' = <<>>
         /\ response' = <<>>
    ELSE /\ handed' = Handed(telemetry, made.payload)
         /\ Http_postJson(telemetry, made.payload)

Http_sendKeyval ==
    /\ op = "idle"
    /\ \E key \in Keys, value \in KeyvalValues, telemetry \in BOOLEAN :
        LET t == Telemetry_ctor(key, value) IN
        /\ op' = "sendKeyval"
        /\ arg' = [data |-> <<t>>, telemetry |-> telemetry, backend |-> "http",
                   value |-> value]
        /\ HttpSend(Http_keyvalPayload(t, PayloadSize), telemetry)
        /\ invoked' = <<>>
        /\ before' = m_subscribedInstance
        /\ UNCHANGED <<client, session, dropped, standing>>

Http_sendDataArray ==
    /\ op = "idle"
    /\ \E data \in DataArrays, telemetry \in BOOLEAN :
        /\ op' = "sendDataArray"
        /\ arg' = [data |-> data, telemetry |-> telemetry, backend |-> "http"]
        /\ HttpSend(Http_arrayPayload(data, PayloadSize, MaxFieldsAmt), telemetry)
        /\ invoked' = <<>>
        /\ before' = m_subscribedInstance
        /\ UNCHANGED <<client, session, dropped, standing>>

\* The caller takes the result; the next call may start.
Return ==
    /\ op # "idle"
    /\ op' = "idle" /\ arg' = NoArg /\ ret' = FALSE
    /\ io' = <<>> /\ results' = <<>> /\ invoked' = <<>> /\ handed' = <<>>
    /\ before' = FALSE
    /\ response' = <<>>
    /\ UNCHANGED <<client, session, dropped, standing>>

(***************************************************************************)
(* Spec: the MQTT client ThingsBoard = ThingsBoardSized<> through its      *)
(* life, with the default template arguments.                              *)
(***************************************************************************)
Init ==
    /\ PayloadSize = Default_Payload
    /\ MaxFieldsAmt = Default_Fields_Amt
    /\ m_host = <<"h">>
    /\ m_token = <<"t">>
    /\ Constructed

Next ==
    \/ connect
    \/ disconnect
    \/ RPC_Subscribe
    \/ RPC_Unsubscribe
    \/ messageCallback
    \/ sendJson
    \/ sendKeyval
    \/ sendDataArray
    \/ Return

Spec == Init /\ [][Next]_vars

(***************************************************************************)
(* SpecSend: the send paths of both clients, for every PayloadSize up to   *)
(* MaxPayloadSize and a MaxFieldsAmt the longest arrays exceed or reach.   *)
(***************************************************************************)
InitSend ==
    /\ PayloadSize \in 1..MaxPayloadSize
    /\ MaxFieldsAmt \in {MaxDataCount - 1, MaxDataCount}
    /\ m_host = <<"h">>
    /\ m_token \in Tokens
    /\ Constructed

NextSend ==
    \/ sendJson
    \/ sendKeyval
    \/ sendDataArray
    \/ Http_sendJson
    \/ Http_sendKeyval
    \/ Http_sendDataArray
    \/ Return

SpecSend == InitSend /\ [][NextSend]_vars

(***************************************************************************)
(* The properties checked. What a property says about an inbound message   *)
(* is stated on the message itself (arg), not through process_message.     *)
(***************************************************************************)
\* The payload decodes: it is JSON and fits the document's pool.
Decodes(payload) == payload.valid /\ Len(payload.members) <= MaxFieldsAmt

\* The payload is an object that has a text `method`.
HasTextMethod(payload) ==
    /\ payload.isObject
    /\ \E i \in 1..Len(payload.members) :
           /\ payload.members[i].key = "method"
           /\ ~payload.members[i].value.isNull
           /\ payload.members[i].value.isStr

MethodOf(payload) ==
    payload.members[CHOOSE i \in 1..Len(payload.members) :
                        payload.members[i].key = "method"].value.str

HasParams(payload) ==
    \E i \in 1..Len(payload.members) : payload.members[i].key = "params"

\* A message was delivered while Subscribed, and it decodes to an object
\* with a text method.
Dispatched ==
    /\ op = "message"
    /\ before
    /\ Decodes(arg.payload)
    /\ HasTextMethod(arg.payload)

\* The entries of the table named like the method, and those among them
\* that have a handler.
Named(m) == {i \in 1..Len(m_rpcCallbacks) : m_rpcCallbacks[i].m_name = m}

Registered(m) == {i \in Named(m) : m_rpcCallbacks[i].m_cb # NullFn}

Lowest(S) == CHOOSE i \in S : \A j \in S : i <= j

\* s with only the first occurrence of find replaced.
RECURSIVE ReplaceFirst(_, _, _)
ReplaceFirst(s, find, with) ==
    IF Len(s) < Len(find) THEN s
    ELSE IF SubSeq(s, 1, Len(find)) = find
         THEN with \o SubSeq(s, Len(find) + 1, Len(s))
         ELSE <<Head(s)>> \o ReplaceFirst(Tail(s), find, with)

\* The reply to a message as the dispatcher publishes any reply: the
\* rendered record on the channel derived from the message's, or nothing
\* when the text does not fit PayloadSize - 1.
ReplyOf(r) ==
    LET text == JsonText(serializeKeyval(r, EmptyDoc, 1).doc) IN
    IF Len(text) <= PayloadSize - 1
    THEN <<IoCall("publish", responseTopic(arg.topic), text)>>
    ELSE <<>>

\* C1: while Subscribed, an inbound message that decodes to a JSON object
\* whose method names no entry of the handler table causes no publish and
\* no handler call.
C1_UnknownMethodNoReply ==
    (Dispatched /\ Named(MethodOf(arg.payload)) = {})
        => (io = <<>> /\ invoked = <<>>)

\* C2: once an RPC_Subscribe has succeeded and a connect with host and
\* token has followed, and until RPC_Subscribe is called again,
\* RPC_Subscribed() is false and a delivered message invokes no handler and
\* publishes nothing.
C2_ReconnectStopsDispatch ==
    session = "reconnected"
        => /\ ~RPC_Subscribed
           /\ op = "message" => (invoked = <<>> /\ io = <<>>)

\* C2 witness: after the reconnect a message arrives whose method is still
\* in the table with a handler.
C2_Witness ==
    /\ session = "reconnected"
    /\ op = "message"
    /\ Decodes(arg.payload)
    /\ HasTextMethod(arg.payload)
    /\ Registered(MethodOf(arg.payload)) # {}

\* C3: RPC_Subscribe called while Subscribed returns false, makes no
\* transport call, and leaves the flag, the table and the callback alone.
C3_ResubscribeRejected ==
    [][(op' = "RPC_Subscribe" /\ m_subscribedInstance)
          => /\ ret' = FALSE
             /\ io' = <<>>
             /\ UNCHANGED <<m_subscribedInstance, m_rpcCallbacks, callbackSet>>]_vars

\* C3 witness: a second RPC_Subscribe with another table was rejected while
\* a table was installed.
C3_Witness ==
    /\ op = "RPC_Subscribe"
    /\ before
    /\ callbackSet
    /\ ret = FALSE
    /\ m_rpcCallbacks # <<>>
    /\ arg.callbacks # m_rpcCallbacks

\* The JSON text of the records a send was given.
SentText ==
    JsonText(serializeAll(arg.data, EmptyDoc,
                          IF op = "sendKeyval" THEN 1 ELSE MaxFieldsAmt).doc)

\* A send that the field-count check lets through.
CountedSend ==
    /\ op \in {"sendKeyval", "sendDataArray"}
    /\ op = "sendDataArray" => Len(arg.data) <= MaxFieldsAmt

\* C4: in every send path of both clients, a document of PayloadSize - 1
\* characters or fewer is passed on whole to the JSON send and, on MQTT,
\* published; a document of PayloadSize characters or more makes the send
\* return false with no transport call.
C4_SizeCheckExact ==
    CountedSend =>
        /\ Len(SentText) <= PayloadSize - 1 =>
              /\ handed = Handed(arg.telemetry, SentText)
              /\ arg.backend = "mqtt" =>
                     io = <<IoCall("publish",
                                   IF arg.telemetry THEN TelemetryTopic ELSE AttributesTopic,
                                   SentText)>>
              /\ \A k \in 1..Len(io) : io[k].fn = "post" => io[k].data = SentText
        /\ Len(SentText) >= PayloadSize =>
              (ret = FALSE /\ io = <<>> /\ handed = <<>>)

\* C4 witness: an aggregated HTTP send of two records whose document is
\* exactly PayloadSize - 1 long was posted.
C4_Witness ==
    /\ op = "sendDataArray"
    /\ arg.backend = "http"
    /\ Len(arg.data) = 2
    /\ Len(SentText) = PayloadSize - 1
    /\ \E k \in 1..Len(io) : io[k].fn = "post"

\* C5: an aggregated send of more than MaxFieldsAmt records returns false
\* with no transport call; one of exactly MaxFieldsAmt records is not
\* refused for its count (it goes on when its document fits).
C5_FieldCountLimit ==
    op = "sendDataArray" =>
        /\ Len(arg.data) > MaxFieldsAmt => (ret = FALSE /\ io = <<>> /\ handed = <<>>)
        /\ (Len(arg.data) = MaxFieldsAmt /\ Len(SentText) <= PayloadSize - 1)
              => handed = Handed(arg.telemetry, SentText)

\* C5 witness: an HTTP client with a token refused an array one record too
\* long whose document would have fitted.
C5_Witness ==
    /\ op = "sendDataArray"
    /\ arg.backend = "http"
    /\ m_token # NullPtr
    /\ Len(arg.data) = MaxFieldsAmt + 1
    /\ Len(SentText) <= PayloadSize - 1
    /\ ret = FALSE
    /\ io = <<>>

\* A step that is a connect with host and token whose transport connect failed.
FailedConnect ==
    /\ op' = "connect"
    /\ arg'.host # NullPtr
    /\ arg'.access_token # NullPtr
    /\ ret' = FALSE

\* C6 as claimed: a connect with host and token whose transport connect
\* fails leaves the client as it was, a Subscribed dispatcher Subscribed.
C6_FailedConnectKeepsState ==
    [][FailedConnect
          => UNCHANGED <<m_subscribedInstance, m_rpcCallbacks, callbackSet>>]_vars

\* C6 as amended: such a connect returns false and leaves the handler table
\* and the installed callback as they were, but the dispatcher is
\* Unsubscribed after it.
C6_FailedConnectUnsubscribes ==
    [][FailedConnect
          => /\ ~m_subscribedInstance'
             /\ UNCHANGED <<m_rpcCallbacks, callbackSet>>]_vars

\* C6 witness: a connect failed on a dispatcher that was Subscribed with a
\* table installed.
C6_Witness ==
    /\ op = "connect"
    /\ io # <<>>
    /\ ret = FALSE
    /\ before
    /\ ~RPC_Subscribed
    /\ m_rpcCallbacks # <<>>

\* C7: a message that does not decode, or that has no text method, invokes
\* no handler and publishes nothing.
C7_UndecodableDropped ==
    (op = "message" /\ (~Decodes(arg.payload) \/ ~HasTextMethod(arg.payload)))
        => (invoked = <<>> /\ io = <<>>)

\* C7 witness: while Subscribed, a message that names a registered method
\* but has more members than the document holds.
C7_Witness ==
    /\ op = "message"
    /\ before
    /\ ~Decodes(arg.payload)
    /\ HasTextMethod(arg.payload)
    /\ Registered(MethodOf(arg.payload)) # {}

\* C8: while Subscribed, a message without params whose method has a
\* handler invokes that handler once, with the null value, and its reply is
\* published as any reply is.
C8_MissingParamsStillDispatched ==
    (Dispatched /\ ~HasParams(arg.payload) /\ Registered(MethodOf(arg.payload)) # {})
        => LET cb == m_rpcCallbacks[Lowest(Registered(MethodOf(arg.payload)))].m_cb IN
           /\ Len(invoked) = 1
           /\ invoked[1].cb = cb
           /\ invoked[1].data = NullVariant
           /\ io = ReplyOf(CallHandler(cb, NullVariant))

\* C8 witness: such a message, and the reply was published.
C8_Witness ==
    /\ Dispatched
    /\ ~HasParams(arg.payload)
    /\ Len(invoked) = 1
    /\ io # <<>>

\* C9: the reply channel is the inbound channel with only the first
\* `request` replaced by `response`.
C9_ReplyChannelFirstOccurrence ==
    (op = "message" /\ io # <<>>)
        => /\ Len(io) = 1
           /\ io[1].fn = "publish"
           /\ io[1].target = ReplaceFirst(arg.topic, RequestText, ResponseText)

\* C10 as claimed: the handler invoked is that of the first entry named
\* like the method, and no later entry of that name is invoked.
C10_FirstNamedEntryInvoked ==
    op = "message" =>
        \A k \in 1..Len(invoked) :
            invoked[k].index = Lowest(Named(MethodOf(arg.payload)))

\* C10 as amended: the handler invoked is that of the first entry that has
\* a handler and is named like the method, it is invoked when there is one,
\* and no other entry is invoked.
C10_FirstRegisteredEntryInvoked ==
    /\ op = "message" => Len(invoked) <= 1
    /\ (op = "message" /\ invoked # <<>>) =>
           /\ Dispatched
           /\ Registered(MethodOf(arg.payload)) # {}
           /\ invoked[1].index = Lowest(Registered(MethodOf(arg.payload)))
           /\ invoked[1].cb = m_rpcCallbacks[invoked[1].index].m_cb
    /\ (Dispatched /\ Registered(MethodOf(arg.payload)) # {}) => invoked # <<>>

\* C10 witness: two entries with handlers share the method's name and the
\* first was invoked.
C10_Witness ==
    /\ Dispatched
    /\ Cardinality(Registered(MethodOf(arg.payload))) = 2
    /\ Len(invoked) = 1
    /\ invoked[1].index = 1

\* The document after the first n records of a send went through
\* serializeKeyval.
DocAfter(n) ==
    serializeAll(SubSeq(arg.data, 1, n), EmptyDoc,
                 IF op = "sendKeyval" THEN 1 ELSE MaxFieldsAmt).doc

\* The document holds the value of record t: under its key, or as the
\* scalar itself for a record without a key.
Stored(t, doc) ==
    IF t.m_key # NullPtr
    THEN /\ doc.kind = "object"
         /\ \E i \in 1..Len(doc.members) :
                doc.members[i].key = t.m_key /\ doc.members[i].text = ScalarText(t)
    ELSE doc.kind = "scalar" /\ doc.text = ScalarText(t)

\* The JSON layer did not store the value of some record of the send.
StoreFailed ==
    \E n \in 1..Len(arg.data) : ~Stored(arg.data[n], DocAfter(n))

\* C11: a send in which the JSON layer fails to store the value of a record
\* returns false, makes no transport call and passes nothing on.
C11_StoreFailureAborts ==
    (CountedSend /\ StoreFailed) => (ret = FALSE /\ io = <<>> /\ handed = <<>>)

\* C12: connect called with a null host or a null access token returns
\* false, makes no call on the transport, and leaves the subscription flag,
\* the handler table and the installed callback as they were.
C12_InvalidConnectDoesNothing ==
    [][(op' = "connect" /\ (arg'.host = NullPtr \/ arg'.access_token = NullPtr))
          => /\ ret' = FALSE
             /\ io' = <<>>
             /\ UNCHANGED <<m_subscribedInstance, m_rpcCallbacks, callbackSet>>]_vars

\* C12 witness: connect without a host returned on a dispatcher that was
\* Subscribed with a table, and is Subscribed still.
C12_Witness ==
    /\ op = "connect"
    /\ arg.host = NullPtr
    /\ arg.access_token # NullPtr
    /\ before
    /\ RPC_Subscribed
    /\ m_rpcCallbacks # <<>>
    /\ io = <<>>

\* A call of sendTelemetryJson / sendAttributeJSON of the HTTP client, made
\* by the caller or by a send that passed its checks.
HttpJsonCall ==
    \/ op \in {"Http_sendTelemetryJson", "Http_sendAttributeJSON"}
    \/ op \in {"sendKeyval", "sendDataArray"} /\ arg.backend = "http" /\ handed # <<>>

Posts == {k \in 1..Len(io) : io[k].fn = "post"}

\* The transport accepted the POST.
PostAccepted == \E k \in Posts : results[k].n = HTTP_SUCCESS

\* C13: a JSON send of the HTTP client makes at most one POST, returns true
\* exactly when the transport accepted the POST and the response has status
\* 200, and ends with stop whenever a POST was made.
C13_HttpSendResult ==
    HttpJsonCall =>
        /\ Cardinality(Posts) <= 1
        /\ ret <=> (PostAccepted /\ response = <<200>>)
        /\ Posts # {} => io[Len(io)].fn = "stop"

\* C14: a successful RPC_Subscribe leaves the table equal to the one it was
\* given, entry for entry; from then on a message whose method only the
\* replaced table named invokes no handler, and a message whose method has
\* a handler in the new table invokes that handler.
C14_RegistryReplaced ==
    /\ (op = "RPC_Subscribe" /\ ret) => m_rpcCallbacks = arg.callbacks
    /\ Dispatched =>
          /\ MethodOf(arg.payload) \in dropped => invoked = <<>>
          /\ Registered(MethodOf(arg.payload)) # {} =>
                 /\ Len(invoked) = 1
                 /\ invoked[1].cb =
                        m_rpcCallbacks[Lowest(Registered(MethodOf(arg.payload)))].m_cb

\* C14 witness: after a table with handlers was replaced by another, the
\* dispatcher got a message whose method only the replaced table named.
C14_Witness ==
    /\ Dispatched
    /\ MethodOf(arg.payload) \in dropped
    /\ \E i \in 1..Len(m_rpcCallbacks) : m_rpcCallbacks[i].m_cb # NullFn
    /\ invoked = <<>>

\* The type tag of a value's kind, and the text its kind's writer gives it.
TagOf(value) ==
    CASE value.ctype = "int" -> TYPE_INT
      [] value.ctype = "bool" -> TYPE_BOOL
      [] value.ctype \in {"float", "double"} -> TYPE_REAL
      [] value.ctype = "const char*" -> TYPE_STR

WrittenAs(value) ==
    CASE value.ctype = "int" -> IntText(value.v.integer)
      [] value.ctype = "bool" -> BoolText(value.v.boolean)
      [] value.ctype \in {"float", "double"} -> RealText(value.v.real)
      [] value.ctype = "const char*" -> StrText(value.v.str)

\* C15: the record a single send builds from a value carries the type tag
\* of the value's kind and is written by that kind's writer.
C15_TagMatchesKind ==
    op = "sendKeyval" =>
        /\ arg.data[1].m_type = TagOf(arg.value)
        /\ ScalarText(arg.data[1]) = WrittenAs(arg.value)

\* Some RPC_Subscribe returned true, and neither RPC_Unsubscribe nor a connect
\* with host and token was called after it.
entitled == standing = "subscribed"

\* C16: the dispatcher is Subscribed, and a delivered message reaches a
\* handler or gets a reply, only while some RPC_Subscribe has returned true
\* with no RPC_Unsubscribe and no connect with host and token after it; a
\* newly constructed client is Unsubscribed, and so is the client after an
\* RPC_Subscribe whose transport subscribe failed.
C16_SubscribedOnlyAfterSubscribe ==
    /\ RPC_Subscribed => entitled
    /\ (op = "message" /\ (invoked # <<>> \/ io # <<>>)) => entitled
    /\ (op = "RPC_Subscribe" /\ io # <<>> /\ ~results[1].b) => ~RPC_Subscribed

\* The rendered reply of the handler a message invoked.
RenderedReply ==
    JsonText(serializeKeyval(CallHandler(invoked[1].cb, invoked[1].data), EmptyDoc, 1).doc)

\* C17: a delivered message invokes at most one handler and makes at most
\* one transport call, a publish on the channel derived from the message's
\* own channel; a handler's reply longer than PayloadSize - 1 is not
\* published.
C17_AtMostOneReply ==
    op = "message" =>
        /\ Len(invoked) <= 1
        /\ Len(io) <= 1
        /\ \A k \in 1..Len(io) :
               /\ io[k].fn = "publish"
               /\ io[k].target = replace(arg.topic, RequestText, ResponseText)
        /\ (Len(invoked) = 1 /\ Len(RenderedReply) > PayloadSize - 1) => io = <<>>

\* C17 witness: a handler was invoked and its reply, exactly PayloadSize
\* long, was dropped.
C17_Witness ==
    /\ op = "message"
    /\ before
    /\ Len(invoked) = 1
    /\ Len(RenderedReply) = PayloadSize
    /\ io = <<>>

\* A send of the MQTT client that passes the field-count and size checks.
MqttSendPasses ==
    /\ CountedSend
    /\ arg.backend = "mqtt"
    /\ Len(SentText) <= PayloadSize - 1

\* C18: a send of the MQTT client that passes its checks makes exactly one
\* transport call, a publish on the telemetry channel for a telemetry send
\* and on the attribute channel for an attribute send, and returns what
\* that call returned.
C18_OnePublishOnItsChannel ==
    MqttSendPasses =>
        /\ Len(io) = 1
        /\ io[1].fn = "publish"
        /\ io[1].target = (IF arg.telemetry
                           THEN <<"v", "1", "/", "d", "e", "v", "i", "c", "e", "s", "/",
                                  "m", "e", "/", "t", "e", "l", "e", "m", "e", "t", "r", "y">>
                           ELSE <<"v", "1", "/", "d", "e", "v", "i", "c", "e", "s", "/",
                                  "m", "e", "/", "a", "t", "t", "r", "i", "b", "u", "t", "e", "s">>)
        /\ ret = results[1].b

\* C18 witness: an aggregated attribute send of two records was published
\* and the publish failed.
C18_Witness ==
    /\ MqttSendPasses
    /\ op = "sendDataArray"
    /\ Len(arg.data) = 2
    /\ ~arg.telemetry
    /\ Len(io) = 1
    /\ ~results[1].b
    /\ ~ret

\* C19: from the return of RPC_Unsubscribe, whatever the transport
\* answered, until an RPC_Subscribe returns true, RPC_Subscribed() is false,
\* a delivered message invokes no handler and publishes nothing, and a call
\* of RPC_Subscribe is not rejected: it goes to the transport and returns
\* the result of the transport's subscribe.
C19_UnsubscribeAlwaysUnsubscribes ==
    /\ standing = "unsubscribed" =>
          /\ ~RPC_Subscribed
          /\ op = "message" => (invoked = <<>> /\ io = <<>>)
          /\ op = "RPC_Subscribe" => (io # <<>> /\ io[1].fn = "subscribe")
    /\ (op = "RPC_Subscribe" /\ ~before) => (io # <<>> /\ ret = results[1].b)

\* C19 witness: RPC_Unsubscribe returned false, the transport having
\* failed, on a dispatcher that was Subscribed with a table of handlers.
C19_Witness ==
    /\ op = "RPC_Unsubscribe"
    /\ ~ret
    /\ before
    /\ callbackSet
    /\ m_rpcCallbacks # <<>>
    /\ ~RPC_Subscribed

\* C20: disconnect and every send leave the subscription flag, the handler
\* table and the installed callback as they were, and an RPC_Subscribe
\* called after a successful one, with no RPC_Unsubscribe and no connect
\* with host and token in between, is rejected without a transport call.
C20_DisconnectAndSendsKeepSubscription ==
    [][/\ op' \in {"disconnect", "sendKeyval", "sendDataArray",
                   "sendTelemetryJson", "sendAttributeJSON"}
          => UNCHANGED <<m_subscribedInstance, m_rpcCallbacks, callbackSet>>
       /\ (op' = "RPC_Subscribe" /\ standing = "subscribed")
          => (~ret' /\ io' = <<>>)]_vars

\* C20 witness: after a successful RPC_Subscribe and then only disconnects
\* and sends, the last of them a disconnect, the dispatcher is Subscribed.
C20_Witness ==
    /\ op = "disconnect"
    /\ standing = "subscribed"
    /\ before
    /\ RPC_Subscribed
    /\ m_rpcCallbacks # <<>>

====
